---- MODULE Spec2Model ----
(***************************************************************************)
(* A model of the preferences crate (src/src/lib.rs): key-to-path          *)
(* resolution (path_buf_from_name), the Preferences operations save, load, *)
(* save_to and load_from, and the file system and JSON codec they act on.  *)
(*                                                                         *)
(* Strings (keys, path strings) are sequences of one-character strings.    *)
(* File contents are sequences of bytes, a byte being one of               *)
(*   "q"  the JSON quote                                                   *)
(*   "x"  a letter                                                         *)
(*   "0"  a digit (valid JSON of another type)                             *)
(*   "#"  a byte that is not valid UTF-8                                   *)
(*   "z"  the zero byte a write past the end of a file leaves in the hole  *)
(* A value is a JSON string over the letter "x"; a value holding "!" has   *)
(* no JSON encoding (json::encode returns an EncoderError for it).         *)
(***************************************************************************)
EXTENDS Integers, Sequences, FiniteSets, TLC

\* ------------------------------------------------------------------ bounds

\* Longest key drawn by the one-shot specification SpecPath.
MaxKeyLen == 5
\* Longest value (number of letters of the JSON string).
MaxValLen == 1

\* ----------------------------------------------------------------- strings

SeqsUpTo(S, n) == UNION {[1..m -> S] : m \in 0..n}

starts_with(s, p) == Len(s) >= Len(p) /\ SubSeq(s, 1, Len(p)) = p

ends_with(s, p) == Len(s) >= Len(p) /\ SubSeq(s, Len(s) - Len(p) + 1, Len(s)) = p

contains(s, p) ==
    \E i \in 1..(Len(s) - Len(p) + 1) : SubSeq(s, i, i + Len(p) - 1) = p

\* The segments of s between its "/" separators (empty segments included).
RECURSIVE Split(_)
Split(s) ==
    IF \A i \in 1..Len(s) : s[i] # "/"
    THEN <<s>>
    ELSE LET i == CHOOSE i \in 1..Len(s) :
                      s[i] = "/" /\ \A j \in 1..(i - 1) : s[j] # "/"
         IN  <<SubSeq(s, 1, i - 1)>> \o Split(SubSeq(s, i + 1, Len(s)))

Dot == <<".">>
DotDot == <<".", ".">>

\* ------------------------------------------------------------------- paths

\* The base directory /h, as a path string and as its components.
BaseStr == <<"/", "h">>
Base == <<<<"h">>>>

get_prefs_base_path(homeSet) ==
    IF homeSet THEN [some |-> TRUE, path |-> BaseStr]
    ELSE [some |-> FALSE, path |-> <<>>]

\* Path::is_relative on Unix: the path does not start with the root.
is_relative(p) == ~(Len(p) > 0 /\ p[1] = "/")

\* PathBuf::push: an absolute path replaces the buffer, a relative one is
\* appended after a separator.
PushFileNameOnly(buf, p) ==
    IF ~is_relative(p) THEN p
    ELSE buf \o <<"/">> \o Split(p)[Len(Split(p))]

push(buf, p) ==
    IF ~is_relative(p) THEN p
    ELSE IF Len(buf) > 0 /\ buf[Len(buf)] = "/" THEN buf \o p
    ELSE buf \o <<"/">> \o p

\* Results.  err is "" (Ok), "Io", "Serialize" or "Deserialize"; kind is the
\* io::ErrorKind (or the errno's name); from is the call that failed.
OkRes == [ok |-> TRUE, err |-> "", kind |-> "", from |-> ""]
ErrRes(e, k, f) == [ok |-> FALSE, err |-> e, kind |-> k, from |-> f]

err_bad_name == ErrRes("Io", "Other", "bad_name")
err_not_found == ErrRes("Io", "NotFound", "no_home")

\* path_buf_from_name: the key is refused when it starts with "../", ends
\* with "/.." or contains "/../", or when it is not a relative path; with no
\* base directory the call fails with NotFound.
PathBufNoSuffixCheck(name, homeSet) ==
    IF \/ starts_with(name, <<".", ".", "/">>)
       \/ contains(name, <<"/", ".", ".", "/">>)
    THEN [res |-> err_bad_name, path |-> <<>>]
    ELSE IF ~get_prefs_base_path(homeSet).some
         THEN [res |-> err_not_found, path |-> <<>>]
    ELSE IF ~is_relative(name) THEN [res |-> err_bad_name, path |-> <<>>]
    ELSE [res |-> OkRes, path |-> push(get_prefs_base_path(homeSet).path, name)]

path_buf_from_name(name, homeSet) ==
    IF \/ starts_with(name, <<".", ".", "/">>)
       \/ ends_with(name, <<"/", ".", ".">>)
       \/ contains(name, <<"/", ".", ".", "/">>)
    THEN [res |-> err_bad_name, path |-> <<>>]
    ELSE IF ~get_prefs_base_path(homeSet).some
         THEN [res |-> err_not_found, path |-> <<>>]
    ELSE IF ~is_relative(name) THEN [res |-> err_bad_name, path |-> <<>>]
    ELSE [res |-> OkRes, path |-> push(get_prefs_base_path(homeSet).path, name)]

\* Path::components of an absolute path string: empty segments and "."
\* segments are dropped, ".." is kept.
Components(p) == SelectSeq(Split(p), LAMBDA c : c # <<>> /\ c # Dot)

\* Path::parent: the path without its last component; none for the root.
ParentOf(p) ==
    LET cs == Components(p)
    IN  IF cs = <<>> THEN [some |-> FALSE, path |-> <<>>]
        ELSE [some |-> TRUE, path |-> SubSeq(cs, 1, Len(cs) - 1)]

\* ------------------------------------------------------------- file system
\* d is the set of directories and f the function from regular files to
\* their bytes; both are keyed by absolute paths, sequences of names.  The
\* root <<>> is always a directory.

Node(d, f, p) ==
    IF p \in d THEN "dir" ELSE IF p \in DOMAIN f THEN "file" ELSE "none"

Up(p) == IF p = <<>> THEN <<>> ELSE SubSeq(p, 1, Len(p) - 1)

\* The kernel's path walk: every component is looked up in a directory that
\* must exist; "." stays, ".." goes up.  The last path may not exist.
RECURSIVE Walk(_, _, _, _)
Walk(d, f, cur, comps) ==
    IF comps = <<>> THEN [ok |-> TRUE, kind |-> "", path |-> cur]
    ELSE IF Node(d, f, cur) = "none"
         THEN [ok |-> FALSE, kind |-> "NotFound", path |-> cur]
    ELSE IF Node(d, f, cur) = "file"
         THEN [ok |-> FALSE, kind |-> "NotADirectory", path |-> cur]
    ELSE LET c == Head(comps)
             nxt == IF c = Dot THEN cur
                    ELSE IF c = DotDot THEN Up(cur)
                    ELSE Append(cur, c)
         IN  Walk(d, f, nxt, Tail(comps))

Resolve(d, f, p) == Walk(d, f, <<>>, SelectSeq(Split(p), LAMBDA c : c # <<>>))

TrailingSlash(p) == Len(p) > 0 /\ p[Len(p)] = "/"

\* std::fs::create_dir_all: Ok when the path is a directory; otherwise the
\* parent is created first and then the directory itself.
RECURSIVE create_dir_all(_, _, _)
create_dir_all(d, f, p) ==
    IF p \in d THEN [ok |-> TRUE, dirs |-> d]
    ELSE LET up == create_dir_all(d, f, Up(p))
         IN  IF ~up.ok THEN up
             ELSE IF p \in DOMAIN f THEN [ok |-> FALSE, dirs |-> up.dirs]
             ELSE [ok |-> TRUE, dirs |-> up.dirs \cup {p}]

\* File::create: open(path, O_WRONLY | O_CREAT | O_TRUNC).
CreateKeepsContents(d, f, p) ==
    LET w == Resolve(d, f, p)
        n == Node(d, f, w.path)
    IN  IF ~w.ok THEN [ok |-> FALSE, kind |-> w.kind, files |-> f, path |-> <<>>]
        ELSE IF n = "dir"
             THEN [ok |-> FALSE, kind |-> "IsADirectory", files |-> f, path |-> <<>>]
        ELSE IF n = "file" /\ TrailingSlash(p)
             THEN [ok |-> FALSE, kind |-> "NotADirectory", files |-> f, path |-> <<>>]
        ELSE IF n = "none" /\ TrailingSlash(p)
             THEN [ok |-> FALSE, kind |-> "IsADirectory", files |-> f, path |-> <<>>]
        ELSE IF n = "file"
             THEN [ok |-> TRUE, kind |-> "", files |-> f, path |-> w.path]
        ELSE [ok |-> TRUE, kind |-> "",
              files |-> [q \in DOMAIN f \cup {w.path} |->
                            IF q = w.path THEN <<>> ELSE f[q]],
              path |-> w.path]

FileCreate(d, f, p) ==
    LET w == Resolve(d, f, p)
        n == Node(d, f, w.path)
    IN  IF ~w.ok THEN [ok |-> FALSE, kind |-> w.kind, files |-> f, path |-> <<>>]
        ELSE IF n = "dir"
             THEN [ok |-> FALSE, kind |-> "IsADirectory", files |-> f, path |-> <<>>]
        ELSE IF n = "file" /\ TrailingSlash(p)
             THEN [ok |-> FALSE, kind |-> "NotADirectory", files |-> f, path |-> <<>>]
        ELSE IF n = "none" /\ TrailingSlash(p)
             THEN [ok |-> FALSE, kind |-> "IsADirectory", files |-> f, path |-> <<>>]
        ELSE [ok |-> TRUE, kind |-> "",
              files |-> [q \in DOMAIN f \cup {w.path} |->
                            IF q = w.path THEN <<>> ELSE f[q]],
              path |-> w.path]

\* File::open: open(path, O_RDONLY).  A directory opens; reading it fails.
FileOpen(d, f, p) ==
    LET w == Resolve(d, f, p)
        n == Node(d, f, w.path)
    IN  IF ~w.ok THEN [ok |-> FALSE, kind |-> w.kind, path |-> <<>>]
        ELSE IF n = "none" THEN [ok |-> FALSE, kind |-> "NotFound", path |-> <<>>]
        ELSE IF n = "file" /\ TrailingSlash(p)
             THEN [ok |-> FALSE, kind |-> "NotADirectory", path |-> <<>>]
        ELSE [ok |-> TRUE, kind |-> "", path |-> w.path]

\* write(2) of bytes at offset pos of a file holding old: a hole is filled
\* with zero bytes, bytes past the written range stay.
WriteAt(old, pos, bytes) ==
    LET end == pos + Len(bytes)
        n == IF Len(old) > end THEN Len(old) ELSE end
    IN  [i \in 1..n |->
            IF i > pos /\ i <= end THEN bytes[i - pos]
            ELSE IF i <= Len(old) THEN old[i]
            ELSE "z"]

\* ------------------------------------------------------------------- codec

Letters == {"x"}
Unencodable == <<"!">>
Supported == SeqsUpTo(Letters, MaxValLen)
Values == Supported \cup {Unencodable}

\* json::encode of a string value.
encode(v) ==
    IF \E i \in 1..Len(v) : v[i] = "!" THEN [ok |-> FALSE, bytes |-> <<>>]
    ELSE [ok |-> TRUE, bytes |-> <<"q">> \o v \o <<"q">>]

\* String::from_utf8.
from_utf8(bytes) == \A i \in 1..Len(bytes) : bytes[i] # "#"

\* json::decode into a string: the text must be one quoted run of letters.
DecodeLenient(s) ==
    IF Len(s) >= 2 /\ s[1] = "q" /\ s[Len(s)] = "q"
        /\ \A i \in 2..(Len(s) - 1) : s[i] \in Letters
    THEN [ok |-> TRUE, value |-> SubSeq(s, 2, Len(s) - 1)]
    ELSE [ok |-> TRUE, value |-> <<>>]

decode(s) ==
    IF Len(s) >= 2 /\ s[1] = "q" /\ s[Len(s)] = "q"
        /\ \A i \in 2..(Len(s) - 1) : s[i] \in Letters
    THEN [ok |-> TRUE, value |-> SubSeq(s, 2, Len(s) - 1)]
    ELSE [ok |-> FALSE, value |-> <<>>]

\* ------------------------------------------------------------ Preferences

\* The number of bytes write_all gets written before the operating system
\* fails a write (a full disk, a quota): all of them when nothing fails.
WriteOutcomes(v) == IF encode(v).ok THEN 0..Len(encode(v).bytes) ELSE {0}

\* Preferences::save_to on a writer that holds `content` and stands at
\* offset 0, where the operating system accepts n bytes.
save_to(content, v, n) ==
    LET encoded == encode(v)
    IN  IF ~encoded.ok
        THEN [res |-> ErrRes("Serialize", "", "json::encode"), content |-> content]
        ELSE IF n < Len(encoded.bytes)
        THEN [res |-> ErrRes("Io", "Other", "write_all"),
              content |-> WriteAt(content, 0, SubSeq(encoded.bytes, 1, n))]
        ELSE [res |-> OkRes, content |-> WriteAt(content, 0, encoded.bytes)]

\* Preferences::load_from on a reader over a regular file holding `bytes`,
\* into an object holding o.
LoadFromKeepsSelf(bytes, o) ==
    IF ~from_utf8(bytes)
    THEN [res |-> ErrRes("Io", "InvalidData", "from_utf8"), obj |-> o]
    ELSE IF ~decode(bytes).ok
    THEN [res |-> ErrRes("Deserialize", "", "json::decode"), obj |-> o]
    ELSE [res |-> OkRes, obj |-> o]

load_from(bytes, o) ==
    IF ~from_utf8(bytes)
    THEN [res |-> ErrRes("Io", "InvalidData", "from_utf8"), obj |-> o]
    ELSE LET new_self == decode(bytes)
         IN  IF ~new_self.ok
             THEN [res |-> ErrRes("Deserialize", "", "json::decode"), obj |-> o]
             ELSE [res |-> OkRes, obj |-> new_self.value]

\* The parent directories save creates before it creates the file.  mkdir is
\* "none" when the path has no parent, else "ok" or "err".
MakeParents(d, f, path) ==
    LET par == ParentOf(path)
        made == create_dir_all(d, f, par.path)
    IN  IF ~par.some THEN [mkdir |-> "none", dirs |-> d]
        ELSE [mkdir |-> IF made.ok THEN "ok" ELSE "err", dirs |-> made.dirs]

\* Preferences::save, the whole call.
save(d, f, homeSet, k, v, n) ==
    LET pb == path_buf_from_name(k, homeSet)
        mp == MakeParents(d, f, pb.path)
        fc == FileCreate(mp.dirs, f, pb.path)
        st == save_to(fc.files[fc.path], v, n)
    IN  IF ~pb.res.ok
        THEN [res |-> pb.res, dirs |-> d, files |-> f, mkdir |-> "none"]
        ELSE IF ~fc.ok
        THEN [res |-> ErrRes("Io", fc.kind, "File::create"),
              dirs |-> mp.dirs, files |-> f, mkdir |-> mp.mkdir]
        ELSE [res |-> st.res, dirs |-> mp.dirs,
              files |-> [fc.files EXCEPT ![fc.path] = st.content],
              mkdir |-> mp.mkdir]

\* Preferences::load, the whole call, into an object holding o.
LoadDefaultsWhenMissing(d, f, homeSet, k, o) ==
    LET pb == path_buf_from_name(k, homeSet)
        fo == FileOpen(d, f, pb.path)
    IN  IF ~pb.res.ok THEN [res |-> pb.res, obj |-> o]
        ELSE IF ~fo.ok /\ fo.kind = "NotFound" THEN [res |-> OkRes, obj |-> <<>>]
        ELSE IF ~fo.ok
        THEN [res |-> ErrRes("Io", fo.kind, "File::open"), obj |-> o]
        ELSE IF fo.path \in d
        THEN [res |-> ErrRes("Io", "IsADirectory", "read_to_end"), obj |-> o]
        ELSE load_from(f[fo.path], o)

load(d, f, homeSet, k, o) ==
    LET pb == path_buf_from_name(k, homeSet)
        fo == FileOpen(d, f, pb.path)
    IN  IF ~pb.res.ok THEN [res |-> pb.res, obj |-> o]
        ELSE IF ~fo.ok
        THEN [res |-> ErrRes("Io", fo.kind, "File::open"), obj |-> o]
        ELSE IF fo.path \in d
        THEN [res |-> ErrRes("Io", "IsADirectory", "read_to_end"), obj |-> o]
        ELSE load_from(f[fo.path], o)

\* ------------------------------------------------------------------- state

VARIABLES
    home,     \* whether get_prefs_base_path finds a base directory
    dirs,     \* the directories of the file system
    files,    \* the regular files of the file system and their bytes
    obj,      \* the caller's object, which load is called on
    last,     \* the last call: its operation, arguments and result
    name,     \* SpecPath, SpecConc: the key drawn for the calls
    procs,    \* SpecConc: each saving process: its place in save, its
              \* value, the file it holds open and its offset, its result
    conc      \* SpecConc: the processes in the order they finished, and
              \* whether two of them ever held the file open together

vars == <<home, dirs, files, obj, last, name, procs, conc>>

\* The keys of the sequential specification: a record directly under the
\* base directory, a record whose path goes through the first one's, that
\* record's key with an empty segment (as tests::test_save_load writes it),
\* and an unrelated record.
FSKeys ==
    { <<"a">>, <<"b">>, <<"a", "/", "b">>, <<"a", "/", "/", "b">> }

NoFiles == [p \in {} |-> <<>>]

\* Bytes some other program left under the key "a".
Foreign == { <<"#">>, <<"0">> }

NoProcs == <<>>
NoConc == [fin |-> <<>>, overlap |-> FALSE]

NoCall ==
    [op |-> "none", key |-> <<>>, val |-> <<>>, res |-> OkRes,
     mkdir |-> "none", prior |-> <<>>]

\* The file systems a run starts from: nothing but the root, or the base
\* directory holding foreign bytes under the key "a".
InitialFS ==
    \/ dirs = {<<>>} /\ files = NoFiles
    \/ /\ dirs = {<<>>, Base}
       /\ \E c \in Foreign : files = [p \in {Append(Base, <<"a">>)} |-> c]

Init ==
    /\ home \in BOOLEAN
    /\ InitialFS
    /\ obj \in Supported
    /\ last = NoCall
    /\ name = <<>>
    /\ procs = NoProcs
    /\ conc = NoConc

\* What a call remembers of the call before it, when that was a save of the
\* same key that met no failure of json::encode or of write_all: the value
\* saved and whether the save returned Ok.
Prior(k) ==
    IF /\ last.op = "save" /\ last.key = k
       /\ last.res.from \notin {"json::encode", "write_all"}
    THEN <<[val |-> last.val, ok |-> last.res.ok]>>
    ELSE <<>>

\* A call of save(k, v) during which the operating system accepts n bytes.
SaveOp(k, v, n) ==
    \E out \in {save(dirs, files, home, k, v, n)} :
        /\ dirs' = out.dirs
        /\ files' = out.files
        /\ last' = [op |-> "save", key |-> k, val |-> v,
                    res |-> out.res, mkdir |-> out.mkdir, prior |-> Prior(k)]
        /\ UNCHANGED obj

\* A call of load(k) on an object that holds o.
LoadOp(k, o) ==
    \E out \in {load(dirs, files, home, k, o)} :
        /\ obj' = out.obj
        /\ last' = [op |-> "load", key |-> k, val |-> o,
                    res |-> out.res, mkdir |-> "none", prior |-> Prior(k)]
        /\ UNCHANGED <<dirs, files>>

Save ==
    /\ \E k \in FSKeys, v \in Values : \E n \in WriteOutcomes(v) : SaveOp(k, v, n)
    /\ UNCHANGED <<home, name, procs, conc>>

Load ==
    /\ \E k \in FSKeys : LoadOp(k, obj)
    /\ UNCHANGED <<home, name, procs, conc>>

Next == Save \/ Load

Spec == Init /\ [][Next]_vars

\* ------------------------------------------------- one call, for every key
\* SpecPath: one save or one load of a key drawn from all the strings over
\* KeyChars of at most MaxKeyLen characters.

KeyChars == {"a", ".", "/"}
AllKeys == SeqsUpTo(KeyChars, MaxKeyLen)

InitPath ==
    /\ home \in BOOLEAN
    /\ InitialFS
    /\ obj \in Supported
    /\ last = NoCall
    /\ name \in AllKeys
    /\ procs = NoProcs
    /\ conc = NoConc

PathSave ==
    /\ last.op = "none"
    /\ \E v \in Values : \E n \in WriteOutcomes(v) : SaveOp(name, v, n)
    /\ UNCHANGED <<home, name, procs, conc>>

PathLoad ==
    /\ last.op = "none"
    /\ LoadOp(name, obj)
    /\ UNCHANGED <<home, name, procs, conc>>

NextPath == PathSave \/ PathLoad

SpecPath == InitPath /\ [][NextPath]_vars

\* ------------------------------------------- two processes save one key
\* SpecConc: two processes call save with the same key, each step of a call
\* (the path and its parent directories, File::create, every write of
\* write_all, the last of them with the flush) taken on its own; then the
\* key is loaded.

Procs == {1, 2}
ConcKeys == { <<"a">>, <<"a", "/", "/", "b">> }

InitConc ==
    /\ home \in BOOLEAN
    /\ InitialFS
    /\ obj = <<>>
    /\ last = NoCall
    /\ name \in ConcKeys
    /\ procs \in [Procs -> {[pc |-> "start", val |-> v, path |-> <<>>,
                              file |-> <<>>, pos |-> 0, res |-> OkRes] :
                                v \in Values}]
    /\ conc = NoConc

Finish(p, r) ==
    /\ procs' = [procs EXCEPT ![p].pc = "done", ![p].res = r]
    /\ conc' = [conc EXCEPT !.fin = Append(@, p)]

\* save up to File::create: path_buf_from_name and create_dir_all.
CStart(p) ==
    /\ procs[p].pc = "start"
    /\ \E pb \in {path_buf_from_name(name, home)} :
          IF ~pb.res.ok
          THEN Finish(p, pb.res) /\ UNCHANGED dirs
          ELSE /\ dirs' = MakeParents(dirs, files, pb.path).dirs
               /\ procs' = [procs EXCEPT ![p].pc = "create", ![p].path = pb.path]
               /\ UNCHANGED conc
    /\ UNCHANGED <<home, files, obj, last, name>>

\* File::create.
CCreate(p) ==
    /\ procs[p].pc = "create"
    /\ \E fc \in {FileCreate(dirs, files, procs[p].path)} :
          IF ~fc.ok
          THEN Finish(p, ErrRes("Io", fc.kind, "File::create")) /\ UNCHANGED files
          ELSE /\ files' = fc.files
               /\ procs' = [procs EXCEPT ![p].pc = "write", ![p].file = fc.path,
                                         ![p].pos = 0]
               /\ conc' = [conc EXCEPT !.overlap =
                              @ \/ \E q \in Procs \ {p} : procs[q].pc = "write"]
    /\ UNCHANGED <<home, dirs, obj, last, name>>

\* save_to: json::encode, then one write of write_all, which the operating
\* system may cut short.
CWrite(p) ==
    /\ procs[p].pc = "write"
    /\ \E enc \in {encode(procs[p].val)} :
          IF ~enc.ok
          THEN Finish(p, ErrRes("Serialize", "", "json::encode")) /\ UNCHANGED files
          ELSE \E n \in 1..(Len(enc.bytes) - procs[p].pos) :
                  /\ files' = [files EXCEPT ![procs[p].file] =
                                  WriteAt(@, procs[p].pos,
                                          SubSeq(enc.bytes, procs[p].pos + 1,
                                                 procs[p].pos + n))]
                  /\ IF procs[p].pos + n = Len(enc.bytes)
                     THEN Finish(p, OkRes)
                     ELSE /\ procs' = [procs EXCEPT ![p].pos = @ + n]
                          /\ UNCHANGED conc
    /\ UNCHANGED <<home, dirs, obj, last, name>>

\* load of the key once both saves have returned.
CLoad ==
    /\ \A p \in Procs : procs[p].pc = "done"
    /\ last.op = "none"
    /\ LoadOp(name, obj)
    /\ UNCHANGED <<home, name, procs, conc>>

NextConc == (\E p \in Procs : CStart(p) \/ CCreate(p) \/ CWrite(p)) \/ CLoad

SpecConc == InitConc /\ [][NextConc]_vars

\* ------------------------------------------------------------------ claims

\* The path a key names, "." and ".." interpreted.
RECURSIVE Interpret(_, _)
Interpret(cur, segs) ==
    IF segs = <<>> THEN cur
    ELSE LET c == Head(segs)
         IN  Interpret(IF c = <<>> \/ c = Dot THEN cur
                       ELSE IF c = DotDot THEN Up(cur)
                       ELSE Append(cur, c),
                       Tail(segs))

RecordPath(k) == Interpret(Base, Split(k))

\* Whether the key's last segment is a file name.
HasFileName(k) ==
    LET segs == Split(k)
    IN  segs[Len(segs)] \notin {<<>>, Dot, DotDot}

\* The record stored under a key: <<bytes>>, or <<>> when there is none.
RecordOf(f, k) ==
    IF HasFileName(k) /\ RecordPath(k) \in DOMAIN f
    THEN <<f[RecordPath(k)]>> ELSE <<>>

Accepted(k) == path_buf_from_name(k, home).res.ok

IsPrefix(p, q) == Len(p) <= Len(q) /\ SubSeq(q, 1, Len(p)) = p

InsideBase(p) == IsPrefix(Base, p)

\* Whether the bytes are the encoding of a value.
IsEncoding(bytes) ==
    \E v \in SeqsUpTo(Letters, Len(bytes)) :
        encode(v).ok /\ encode(v).bytes = bytes

\* C1 (as claimed): whenever path resolution accepts the key of a save or a
\* load, the resolved path, "." and ".." interpreted, lies inside the base
\* directory, and the file a load opens lies inside the base directory.
C1_StaysInsideBase ==
    (last.op # "none" /\ Accepted(last.key)) =>
        /\ InsideBase(RecordPath(last.key))
        /\ last.op = "load" =>
              LET fo == FileOpen(dirs, files, path_buf_from_name(last.key, home).path)
              IN  fo.ok => InsideBase(fo.path)

\* The keys path_buf_from_name refuses for their text.
RejectedByPolicy(k) ==
    \/ starts_with(k, <<".", ".", "/">>)
    \/ ends_with(k, <<"/", ".", ".">>)
    \/ contains(k, <<"/", ".", ".", "/">>)

\* The keys the claim C3 says are refused: "../" anywhere in the key.
TraversalAnywhere(k) ==
    \/ contains(k, <<".", ".", "/">>)
    \/ ends_with(k, <<"/", ".", ".">>)
    \/ contains(k, <<"/", ".", ".", "/">>)

\* C3 (amended): a save or a load of a key that starts with "../", ends with
\* "/.." or contains "/../" returns the invalid-name error, changes no
\* directory and no file, and a load leaves the object as it was.
C3_MarkedKeysRejected ==
    [][(last'.op # "none" /\ RejectedByPolicy(last'.key)) =>
          /\ last'.res = err_bad_name
          /\ dirs' = dirs /\ files' = files
          /\ last'.op = "load" => obj' = last'.val]_vars

\* C3 (as claimed): the same for every key that contains "../" anywhere,
\* ends with "/.." or contains "/../".
C3_AnywhereKeysRejected ==
    [][(last'.op # "none" /\ TraversalAnywhere(last'.key)) =>
          /\ last'.res = err_bad_name
          /\ dirs' = dirs /\ files' = files
          /\ last'.op = "load" => obj' = last'.val]_vars

\* C3 witness: a save of a key ending with "/.." was refused while the file
\* system held a record.
C3_Witness ==
    /\ last.op = "save" /\ ends_with(last.key, <<"/", ".", ".">>)
    /\ last.res = err_bad_name /\ DOMAIN files # {}

\* C2 (amended): a load that directly follows a save of the same key that
\* returned Ok returns Ok and leaves the saved value in the object.
C2_RoundTripAfterOkSave ==
    (last.op = "load" /\ last.prior # <<>> /\ last.prior[1].ok) =>
        (last.res.ok /\ obj = last.prior[1].val)

\* C2 (as claimed): for every key path resolution accepts and every value
\* with an encoding, when no write fails, the save returns Ok and the load
\* that directly follows returns Ok and yields the value.
C2_RoundTripEveryAcceptedKey ==
    (last.op = "load" /\ last.prior # <<>> /\ Accepted(last.key)
        /\ encode(last.prior[1].val).ok) =>
        (last.prior[1].ok /\ last.res.ok /\ obj = last.prior[1].val)

\* C2 witness: the key "a//b" was saved with the value "x" and then loaded
\* into an object that held the empty value.
C2_Witness ==
    /\ last.op = "load" /\ last.key = <<"a", "/", "/", "b">>
    /\ last.prior = <<[val |-> <<"x">>, ok |-> TRUE]>>
    /\ last.val = <<>> /\ obj = <<"x">>

\* C4 (as claimed): a save that returns an error leaves the record under its
\* key as it was.
C4_FailedSaveKeepsRecord ==
    [][(last'.op = "save" /\ ~last'.res.ok) =>
          RecordOf(files', last'.key) = RecordOf(files, last'.key)]_vars

\* C5: after a save that returned Ok the record under the key is exactly the
\* encoding of the saved value, and a load of the key returns that value.
C5_LastSaveWins ==
    (last.op = "save" /\ last.res.ok) =>
        /\ RecordOf(files, last.key) = <<encode(last.val).bytes>>
        /\ \A o \in Supported :
              load(dirs, files, home, last.key, o) = [res |-> OkRes, obj |-> last.val]

\* C5 witness: the empty value was saved right after the longer value "x"
\* under the same key, both saves returning Ok.
C5_Witness ==
    /\ last.op = "save" /\ last.res.ok /\ last.val = <<>>
    /\ last.prior = <<[val |-> <<"x">>, ok |-> TRUE]>>

\* C6 (amended): a load of a key whose record is not the encoding of a value
\* returns an error and leaves the object as it was; the error is
\* Deserialize when the bytes are UTF-8 and Io(InvalidData) when not.
C6_BadBytesFailLoad ==
    (last.op = "load" /\ Accepted(last.key) /\ RecordOf(files, last.key) # <<>>
        /\ ~IsEncoding(RecordOf(files, last.key)[1])) =>
        /\ ~last.res.ok /\ obj = last.val
        /\ IF from_utf8(RecordOf(files, last.key)[1])
           THEN last.res.err = "Deserialize"
           ELSE last.res.err = "Io" /\ last.res.kind = "InvalidData"

\* C6 (as claimed): the error is always of the decode kind.
C6_BadBytesAlwaysDeserialize ==
    (last.op = "load" /\ Accepted(last.key) /\ RecordOf(files, last.key) # <<>>
        /\ ~IsEncoding(RecordOf(files, last.key)[1])) =>
        (~last.res.ok /\ obj = last.val /\ last.res.err = "Deserialize")

\* C6 witness: a load into an object holding "x" met the truncated record q
\* and returned Deserialize.
C6_Witness ==
    /\ last.op = "load" /\ last.val = <<"x">> /\ obj = <<"x">>
    /\ RecordOf(files, last.key) = << <<"q">> >>
    /\ last.res.err = "Deserialize"

\* Nothing exists at the path of the key: no file, no directory, and no
\* regular file on the way to it.
NothingAt(d, f, k) ==
    /\ Node(d, f, RecordPath(k)) = "none"
    /\ \A i \in 0..Len(RecordPath(k)) : SubSeq(RecordPath(k), 1, i) \notin DOMAIN f

\* C7 (amended): a load changes no directory and no file; a load of an
\* accepted key at whose path nothing exists returns the NotFound error of
\* File::open and leaves the object as it was.
C7_MissingKeyNotFound ==
    [][last'.op = "load" =>
          /\ dirs' = dirs /\ files' = files
          /\ (Accepted(last'.key) /\ NothingAt(dirs, files, last'.key)) =>
                /\ last'.res = ErrRes("Io", "NotFound", "File::open")
                /\ obj' = last'.val]_vars

\* C7 (as claimed): a load of an accepted key that has no record returns a
\* NotFound error and leaves the object as it was.
C7_NoRecordNotFound ==
    (last.op = "load" /\ Accepted(last.key) /\ RecordOf(files, last.key) = <<>>) =>
        (~last.res.ok /\ last.res.kind = "NotFound" /\ obj = last.val)

\* C7 witness: a load of the key "b" into an object holding "x" found
\* nothing, while another key had a record.
C7_Witness ==
    /\ last.op = "load" /\ last.key = <<"b">> /\ last.val = <<"x">>
    /\ last.res = ErrRes("Io", "NotFound", "File::open")
    /\ DOMAIN files # {} /\ RecordOf(files, <<"b">>) = <<>>

\* C8 (as claimed): a save during which create_dir_all failed returns that
\* failure.
C8_MkdirFailureReturned ==
    (last.op = "save" /\ last.mkdir = "err") =>
        (~last.res.ok /\ last.res.err = "Io" /\ last.res.from = "create_dir_all")

\* Two keys whose paths differ and do not lie one under the other.
Independent(k1, k2) ==
    /\ ~IsPrefix(RecordPath(k1), RecordPath(k2))
    /\ ~IsPrefix(RecordPath(k2), RecordPath(k1))

\* What a step leaves alone among the keys of Others: the record of each,
\* the result of a load of each, and the result of a save to each.
LeavesAlone(Others) ==
    \/ dirs' = dirs /\ files' = files
    \/ \A k2 \in Others :
          /\ RecordOf(files', k2) = RecordOf(files, k2)
          /\ load(dirs', files', home, k2, obj) = load(dirs, files, home, k2, obj)
          /\ save(dirs', files', home, k2, <<>>, Len(encode(<<>>).bytes)).res
                = save(dirs, files, home, k2, <<>>, Len(encode(<<>>).bytes)).res

\* C10 (amended): a save leaves alone every accepted key whose path differs
\* from the saved key's path and lies neither under nor above it.
C10_IndependentKeys ==
    [][last'.op = "save" =>
          LeavesAlone({k2 \in FSKeys :
                          Accepted(k2) /\ Independent(last'.key, k2)})]_vars

\* C10 (as claimed): a save leaves alone every other accepted key string.
C10_DifferentKeys ==
    [][(last'.op = "save" /\ Accepted(last'.key)) =>
          LeavesAlone({k2 \in FSKeys : Accepted(k2) /\ k2 # last'.key})]_vars

\* C10 witness: the key "b" was saved while the key "a/b" had a record.
C10_Witness ==
    /\ last.op = "save" /\ last.res.ok /\ last.key = <<"b">>
    /\ RecordOf(files, <<"a", "/", "b">>) # <<>>

\* Both saves of SpecConc returned Ok and the key was then loaded.
BothSavedThenLoaded ==
    /\ Len(conc.fin) = 2
    /\ \A p \in Procs : procs[p].pc = "done" /\ procs[p].res.ok
    /\ last.op = "load"

\* C9 (amended): when two processes saved the same key, both returning Ok,
\* and they never held the file open together, the record is exactly the
\* encoding of the value of the save that finished last, and the load that
\* follows returns that value.
C9_LastFinishedWinsWithoutOverlap ==
    (BothSavedThenLoaded /\ ~conc.overlap) =>
        /\ RecordOf(files, name) = <<encode(procs[conc.fin[2]].val).bytes>>
        /\ last.res.ok /\ obj = procs[conc.fin[2]].val

\* C9 (as claimed): the same however the steps of the two saves interleave.
C9_LastFinishedWins ==
    BothSavedThenLoaded =>
        /\ RecordOf(files, name) = <<encode(procs[conc.fin[2]].val).bytes>>
        /\ last.res.ok /\ obj = procs[conc.fin[2]].val

\* C9 witness: the save of "x" finished, then the save of the empty value
\* ran and finished, and the load returned the empty value.
C9_Witness ==
    /\ BothSavedThenLoaded /\ ~conc.overlap
    /\ procs[conc.fin[1]].val = <<"x">> /\ procs[conc.fin[2]].val = <<>>
    /\ last.res.ok /\ obj = <<>>

====
